---- MODULE Spec2Model ----
(***************************************************************************)
(* Podcast Note-Taker: the v0.3 Streamlit page                             *)
(* (peer_podcast_streamlit_mockup.py), its SQLite transcript/summary cache *)
(* and the first MVP page (app.py).                                        *)
(*                                                                         *)
(* A Streamlit page is a script that is run again, top to bottom, after    *)
(* every user interaction; st.session_state and the values of the widgets  *)
(* drawn by the previous run are what survives from one run to the next.   *)
(* One action below is one user interaction together with the whole script *)
(* run it triggers.                                                        *)
(*                                                                         *)
(* Time is counted in ticks, TicksPerSecond of them to a second; floats of *)
(* seconds in the code are integers of ticks here.                         *)
(***************************************************************************)
EXTENDS Integers, Sequences, FiniteSets, TLC

VARIABLES
    \* ---- the cache table of podcast_cache.db (shared by every session)
    cache,
    \* ---- one session of peer_podcast_streamlit_mockup.py
    PLAYER_AVAILABLE,   \* whether streamlit_player could be imported
    url,                \* value of the "Podcast audio URL" text input
    uploaded,           \* value of the file uploader: NONE or Some(bytes)
    event,              \* value of the st_player component: NONE or Some(playedSeconds)
    play_start,         \* st.session_state.play_start: NONE (key absent) or Some(t)
    current_time,       \* st.session_state.current_time
    marks,              \* st.session_state.marks: sequence of [ts, note]
    widgets,            \* values of the keyed "Edit note" text inputs drawn by the last run
    summary,            \* st.session_state.summary
    transcript,         \* st.session_state.transcript
    pressed,            \* the button pressed for the last run, "none" without one
    halt,               \* where the last run ended
    invoked,            \* the stubs the last run called
    \* ---- the cache functions called on their own
    got,                \* result of the last cache_get
    latest,             \* history: the pair of the last cache_save per id
    \* ---- several sessions' "Generate summary" handlers, step by step
    s_url, s_uploaded, s_pc, s_summary, s_transcript, s_error,
    transcribe_calls, summarize_calls,
    \* ---- one session of app.py
    now,                \* the last reading of time.time()
    audio_file,         \* value of the sidebar file uploader
    demo_clip,          \* value of the "Use built-in demo clip" checkbox
    app_play_start,     \* st.session_state.play_start: NONE or Some(t)
    app_marks,          \* st.session_state.marks: sequence of <<ts, label>>
    app_position,       \* the "Current position" the last run wrote: NONE or Some(sec)
    app_summary_shown   \* whether the last run wrote the summary placeholder

cacheVars == <<got, latest>>
mockVars == <<PLAYER_AVAILABLE, url, uploaded, event, play_start, current_time,
              marks, widgets, summary, transcript, pressed, halt, invoked>>
concVars == <<s_url, s_uploaded, s_pc, s_summary, s_transcript, s_error,
              transcribe_calls, summarize_calls>>
appVars == <<now, audio_file, demo_clip, app_play_start, app_marks,
             app_position, app_summary_shown>>
vars == <<cache, cacheVars, mockVars, concVars, appVars>>

-----------------------------------------------------------------------------
(* Bounds of the model *)

MaxTime == 1
MaxMarks == 2
TicksPerSecond == 2
NumSessions == 2
AppMaxTime == 2

-----------------------------------------------------------------------------
(* Python's None / a present value *)

NONE == <<>>
Some(x) == <<x>>
The(o) == o[1]

\* what the user can paste, upload and type
URLS == {"u1"}
FILES == {"f1"}
SHARED_FILES == {"f1", "f2"}
NOTES == {"", "x"}

\* file_md5: a digest of the bytes (of the encoded text, for a str); equal
\* data gives equal digests, and the data of the model all differ
file_md5(data) == <<"md5", data>>

\* the stubs return fixed strings
TranscriptStub == "[Transcript would go here]"
SummaryStub == "[Summary generated from transcript]"

transcribe_audio(data) == TranscriptStub

summarize_text(text) == SummaryStub

-----------------------------------------------------------------------------
(* The cache table: rows in rowid order *)

Rows(table, id_) == {i \in 1..Len(table) : table[i].id = id_}

\* SELECT transcript, summary FROM cache WHERE id=? ; fetchone()
cache_get(table, id_) ==
    IF Rows(table, id_) = {} THEN NONE
    ELSE LET i == CHOOSE k \in Rows(table, id_) : \A j \in Rows(table, id_) : k <= j
         IN  Some(<<table[i].transcript, table[i].summary>>)

\* a plain INSERT that ignores the primary key
cache_save_insert(table, id_, t, s) ==
    Append(table, [id |-> id_, transcript |-> t, summary |-> s])

\* REPLACE INTO cache(id,transcript,summary): the rows that conflict on the
\* primary key are deleted, then the new row is inserted; commit
cache_save(table, id_, t, s) ==
    Append(SelectSeq(table, LAMBDA r : r.id # id_),
           [id |-> id_, transcript |-> t, summary |-> s])

-----------------------------------------------------------------------------
(* The cache functions called with arbitrary arguments *)

IDS == {file_md5(d) : d \in SHARED_FILES \cup URLS}
TEXTS == {"t1", "t2"}

mockInit ==
    /\ PLAYER_AVAILABLE = TRUE
    /\ url = ""
    /\ uploaded = NONE
    /\ event = NONE
    /\ play_start = NONE
    /\ current_time = 0
    /\ marks = <<>>
    /\ widgets = [k \in {} |-> ""]
    /\ summary = NONE
    /\ transcript = NONE
    /\ pressed = "none"
    /\ halt = "no_source"
    /\ invoked = {}

concInit ==
    /\ s_url = [s \in 1..NumSessions |-> ""]
    /\ s_uploaded = [s \in 1..NumSessions |-> NONE]
    /\ s_pc = [s \in 1..NumSessions |-> "idle"]
    /\ s_summary = [s \in 1..NumSessions |-> NONE]
    /\ s_transcript = [s \in 1..NumSessions |-> NONE]
    /\ s_error = [s \in 1..NumSessions |-> FALSE]
    /\ transcribe_calls = [f \in IDS |-> 0]
    /\ summarize_calls = [f \in IDS |-> 0]

appInit ==
    /\ now = 0
    /\ audio_file = NONE
    /\ demo_clip = FALSE
    /\ app_play_start = NONE
    /\ app_marks = <<>>
    /\ app_position = NONE
    /\ app_summary_shown = FALSE

CacheInit ==
    /\ cache = <<>>
    /\ got = NONE
    /\ latest = [f \in IDS |-> NONE]
    /\ mockInit /\ concInit /\ appInit

CachePut(f, t, s) ==
    /\ cache' = cache_save(cache, f, t, s)
    /\ latest' = [latest EXCEPT ![f] = Some(<<t, s>>)]
    /\ UNCHANGED <<got, mockVars, concVars, appVars>>

CacheGet(f) ==
    /\ got' = cache_get(cache, f)
    /\ UNCHANGED <<cache, latest, mockVars, concVars, appVars>>

CacheNext ==
    \/ \E f \in IDS, t \in TEXTS, s \in TEXTS : CachePut(f, t, s)
    \/ \E f \in IDS : CacheGet(f)

CacheSpec == CacheInit /\ [][CacheNext]_vars

-----------------------------------------------------------------------------
(* One session of peer_podcast_streamlit_mockup.py *)

\* int(x) truncates toward zero; x is in ticks, the result in seconds
IntSec(x) == IF x >= 0 THEN x \div TicksPerSecond ELSE -((-x) \div TicksPerSecond)

\* place (from 0) of marks[i] in sorted(marks, key=ts, reverse=True); the sort
\* is stable, and with reverse=True equal keys keep their original order
SortedIndex(ms, i) ==
    Cardinality({j \in 1..Len(ms) :
                    \/ ms[j].ts > ms[i].ts
                    \/ (ms[j].ts = ms[i].ts /\ j < i)})

\* a key made of the second alone, without the place in the list
note_key_without_index(ms, i) == <<0, IntSec(ms[i].ts)>>

\* note_key = f"note_{i}_{int(mark['ts'])}"
note_key(ms, i) == <<SortedIndex(ms, i), IntSec(ms[i].ts)>>

NoWidgets == [k \in {} |-> ""]

\* st.text_input(label, value=..., key=...): a keyed widget that the previous
\* run drew answers with the value it holds; a new one with `value`
text_input(w, key, value) == IF key \in DOMAIN w THEN w[key] ELSE value

\* a flag that the URL tab never sets
from_url_never_set(u) == FALSE

\* from_url, as the URL tab leaves it (the upload tab does not touch it)
FromUrl(u) == u # ""

\* file_id after both tabs: the upload tab's assignment comes last
FileId(u, up) ==
    IF up # NONE THEN Some(file_md5(The(up)))
    ELSE IF u # "" THEN Some(file_md5(u))
    ELSE NONE

\* current_time after both tabs: the onProgress value first, then the
\* fallback timer of the upload tab, which comes last
PositionAfterTabs(u, up, ev, ps, t) ==
    IF up # NONE /\ ps # NONE THEN t - The(ps)
    ELSE IF u # "" /\ ev # NONE THEN The(ev)
    ELSE current_time

\* a handler that never takes the cached branch
cache_hit_ignored(cached) == FALSE

\* `if cached:` of the Generate handler
CacheHit(cached) == cached # NONE

\* the key-moments loop: every mark's note becomes what its text input returns
NotesLoop(ms, w) ==
    [i \in 1..Len(ms) |->
        [ts |-> ms[i].ts, note |-> text_input(w, note_key(ms, i), ms[i].note)]]

\* the note widgets a run leaves behind: the ones the loop drew
WidgetsDrawn(ms, w) ==
    [k \in {note_key(ms, i) : i \in 1..Len(ms)} |->
        LET i == CHOOSE j \in 1..Len(ms) : note_key(ms, j) = k
        IN  text_input(w, k, ms[i].note)]

\* One run of the script: u, up, ev are the values of the URL input, the
\* uploader and the player component, btn the button pressed (or "none"),
\* w the values of the note inputs, t the reading of time.time().
Run(u, up, ev, btn, w, t) ==
    LET ps == IF up # NONE /\ btn = "start" THEN Some(t)
              ELSE IF up # NONE /\ btn = "stop" THEN NONE
              ELSE play_start
        pos == PositionAfterTabs(u, up, ev, ps, t)
        file_id == FileId(u, up)
        ms == IF btn = "mark"
              THEN Append(marks, [ts |-> pos, note |-> ""])
              ELSE marks
        cached == cache_get(cache, The(file_id))
    IN
    /\ url' = u
    /\ pressed' = btn
    /\ UNCHANGED PLAYER_AVAILABLE
    /\ IF u # "" /\ ~PLAYER_AVAILABLE
       THEN \* st.error + st.stop() in the URL tab: nothing below it runs, and
            \* the widgets below it, not drawn, lose their values
            /\ halt' = "player_missing"
            /\ uploaded' = NONE
            /\ event' = NONE
            /\ widgets' = NoWidgets
            /\ invoked' = {}
            /\ UNCHANGED <<play_start, current_time, marks, summary, transcript, cache>>
       ELSE
       /\ uploaded' = up
       /\ event' = IF u # "" THEN ev ELSE NONE
       /\ play_start' = ps
       /\ current_time' = pos
       /\ IF file_id = NONE
          THEN \* the guard: st.info + st.stop()
               /\ halt' = "no_source"
               /\ widgets' = NoWidgets
               /\ invoked' = {}
               /\ UNCHANGED <<marks, summary, transcript, cache>>
          ELSE IF btn = "generate" /\ ~CacheHit(cached) /\ FromUrl(u)
          THEN \* st.error + st.stop() in the Generate handler
               /\ halt' = "url_not_implemented"
               /\ widgets' = NoWidgets
               /\ invoked' = {}
               /\ UNCHANGED <<marks, summary, transcript, cache>>
          ELSE
          /\ halt' = "rendered"
          /\ marks' = NotesLoop(ms, w)
          /\ widgets' = WidgetsDrawn(ms, w)
          /\ IF btn # "generate"
             THEN /\ invoked' = {}
                  /\ UNCHANGED <<summary, transcript, cache>>
             ELSE IF CacheHit(cached)
             THEN /\ transcript' = Some(The(cached)[1])
                  /\ summary' = Some(The(cached)[2])
                  /\ invoked' = {}
                  /\ UNCHANGED cache
             ELSE LET tr == transcribe_audio(The(up))
                      su == summarize_text(tr)
                  IN  /\ cache' = cache_save(cache, The(file_id), tr, su)
                      /\ transcript' = Some(tr)
                      /\ summary' = Some(su)
                      /\ invoked' = {"transcribe_audio", "summarize_text"}

Times == 0..MaxTime

\* whether a run calls time.time(): in the Start handler, and for the fallback
\* timer while play_start is in the session state
ReadsClock(up, btn) ==
    up # NONE /\ (btn = "start" \/ (btn # "stop" /\ play_start # NONE))

\* the readings a run can get (none is taken when the clock is not read)
Readings(up, btn) == IF ReadsClock(up, btn) THEN Times ELSE {0}

\* what the last run drew
UploaderDrawn == halt # "player_missing"
PlayerDrawn == url # "" /\ PLAYER_AVAILABLE
TimerDrawn == UploaderDrawn /\ uploaded # NONE
ControlsDrawn == halt \in {"rendered", "url_not_implemented"}
NotesDrawn == halt = "rendered"

others == <<cacheVars, concVars, appVars>>

\* the user types or clears the URL
SetUrl(u, t) ==
    /\ t \in Readings(uploaded, "none")
    /\ u # url
    /\ Run(u, uploaded, event, "none", widgets, t)
    /\ UNCHANGED others

\* the user uploads a file
Upload(f, t) ==
    /\ t \in Readings(Some(f), "none")
    /\ UploaderDrawn
    /\ uploaded # Some(f)
    /\ Run(url, Some(f), event, "none", widgets, t)
    /\ UNCHANGED others

\* the user removes the uploaded file
RemoveFile(t) ==
    /\ t \in Readings(NONE, "none")
    /\ UploaderDrawn
    /\ uploaded # NONE
    /\ Run(url, NONE, event, "none", widgets, t)
    /\ UNCHANGED others

\* the player component reports onProgress with playedSeconds = p
PlayerEvent(p, t) ==
    /\ t \in Readings(uploaded, "none")
    /\ PlayerDrawn
    /\ Run(url, uploaded, Some(p), "none", widgets, t)
    /\ UNCHANGED others

PressStart(t) ==
    /\ t \in Readings(uploaded, "start")
    /\ TimerDrawn
    /\ Run(url, uploaded, event, "start", widgets, t)
    /\ UNCHANGED others

PressStop(t) ==
    /\ t \in Readings(uploaded, "stop")
    /\ TimerDrawn
    /\ Run(url, uploaded, event, "stop", widgets, t)
    /\ UNCHANGED others

PressMark(t) ==
    /\ t \in Readings(uploaded, "mark")
    /\ ControlsDrawn
    /\ Len(marks) < MaxMarks
    /\ Run(url, uploaded, event, "mark", widgets, t)
    /\ UNCHANGED others

PressGenerate(t) ==
    /\ t \in Readings(uploaded, "generate")
    /\ ControlsDrawn
    /\ Run(url, uploaded, event, "generate", widgets, t)
    /\ UNCHANGED others

\* the user edits the note input with key k
EditNote(k, x, t) ==
    /\ t \in Readings(uploaded, "none")
    /\ NotesDrawn
    /\ k \in DOMAIN widgets
    /\ x # widgets[k]
    /\ Run(url, uploaded, event, "none", [widgets EXCEPT ![k] = x], t)
    /\ UNCHANGED others

\* a run with no change of any widget (the "Rerun" command of the page)
Rerun(t) ==
    /\ t \in Readings(uploaded, "none")
    /\ Run(url, uploaded, event, "none", widgets, t)
    /\ UNCHANGED others

NoteKeys == (0..MaxMarks) \X ((-MaxTime)..MaxTime)

Init ==
    /\ cache = <<>>
    /\ got = NONE
    /\ latest = [f \in IDS |-> NONE]
    /\ PLAYER_AVAILABLE \in BOOLEAN
    /\ url = ""
    /\ uploaded = NONE
    /\ event = NONE
    /\ play_start = NONE
    /\ current_time = 0
    /\ marks = <<>>
    /\ widgets = NoWidgets
    /\ summary = NONE
    /\ transcript = NONE
    /\ pressed = "none"
    /\ halt = "no_source"
    /\ invoked = {}
    /\ concInit /\ appInit

Next ==
    \/ \E u \in URLS \cup {""}, t \in Times : SetUrl(u, t)
    \/ \E f \in FILES, t \in Times : Upload(f, t)
    \/ \E t \in Times : RemoveFile(t)
    \/ \E p \in Times, t \in Times : PlayerEvent(p, t)
    \/ \E t \in Times : PressStart(t)
    \/ \E t \in Times : PressStop(t)
    \/ \E t \in Times : PressMark(t)
    \/ \E t \in Times : PressGenerate(t)
    \/ \E k \in NoteKeys, x \in NOTES, t \in Times : EditNote(k, x, t)
    \/ \E t \in Times : Rerun(t)

Spec == Init /\ [][Next]_vars

-----------------------------------------------------------------------------
(* Several sessions' "Generate summary" handlers, one step at a time.  Each   *)
(* session runs its script in a thread of its own; all of them share the     *)
(* cache table.  The handler sleeps in each stub, so other sessions' steps   *)
(* come between its cache_get, its two stub calls and its cache_save.        *)

Sessions == 1..NumSessions

\* a run that changes the session's source and presses no button
ConcLoad(s, u, up) ==
    /\ s_pc[s] = "idle"
    /\ <<u, up>> # <<s_url[s], s_uploaded[s]>>
    /\ s_url' = [s_url EXCEPT ![s] = u]
    /\ s_uploaded' = [s_uploaded EXCEPT ![s] = up]
    /\ s_error' = [s_error EXCEPT ![s] = FALSE]
    /\ UNCHANGED <<cache, s_pc, s_summary, s_transcript, transcribe_calls, summarize_calls>>
    /\ UNCHANGED <<cacheVars, mockVars, appVars>>

\* "Generate summary" pressed: cached = cache_get(file_id) and what follows it
\* up to the first stub
GenLookup(s) ==
    LET file_id == FileId(s_url[s], s_uploaded[s])
        cached == cache_get(cache, The(file_id))
    IN
    /\ s_pc[s] = "idle"
    /\ file_id # NONE
    /\ IF CacheHit(cached)
       THEN /\ s_transcript' = [s_transcript EXCEPT ![s] = Some(The(cached)[1])]
            /\ s_summary' = [s_summary EXCEPT ![s] = Some(The(cached)[2])]
            /\ s_error' = [s_error EXCEPT ![s] = FALSE]
            /\ UNCHANGED s_pc
       ELSE IF FromUrl(s_url[s])
       THEN /\ s_error' = [s_error EXCEPT ![s] = TRUE]
            /\ UNCHANGED <<s_pc, s_summary, s_transcript>>
       ELSE /\ s_pc' = [s_pc EXCEPT ![s] = "transcribing"]
            /\ s_error' = [s_error EXCEPT ![s] = FALSE]
            /\ UNCHANGED <<s_summary, s_transcript>>
    /\ UNCHANGED <<cache, s_url, s_uploaded, transcribe_calls, summarize_calls>>
    /\ UNCHANGED <<cacheVars, mockVars, appVars>>

\* transcript = transcribe_audio(audio_bytes)
GenTranscribe(s) ==
    /\ s_pc[s] = "transcribing"
    /\ transcribe_calls' =
          [transcribe_calls EXCEPT ![The(FileId(s_url[s], s_uploaded[s]))] = @ + 1]
    /\ s_pc' = [s_pc EXCEPT ![s] = "summarizing"]
    /\ UNCHANGED <<cache, s_url, s_uploaded, s_summary, s_transcript, s_error, summarize_calls>>
    /\ UNCHANGED <<cacheVars, mockVars, appVars>>

\* summary = summarize_text(transcript)
GenSummarize(s) ==
    /\ s_pc[s] = "summarizing"
    /\ summarize_calls' =
          [summarize_calls EXCEPT ![The(FileId(s_url[s], s_uploaded[s]))] = @ + 1]
    /\ s_pc' = [s_pc EXCEPT ![s] = "saving"]
    /\ UNCHANGED <<cache, s_url, s_uploaded, s_summary, s_transcript, s_error, transcribe_calls>>
    /\ UNCHANGED <<cacheVars, mockVars, appVars>>

\* cache_save(file_id, transcript, summary), then the two session fields
GenSave(s) ==
    LET tr == transcribe_audio(The(s_uploaded[s]))
        su == summarize_text(tr)
    IN
    /\ s_pc[s] = "saving"
    /\ cache' = cache_save(cache, The(FileId(s_url[s], s_uploaded[s])), tr, su)
    /\ s_transcript' = [s_transcript EXCEPT ![s] = Some(tr)]
    /\ s_summary' = [s_summary EXCEPT ![s] = Some(su)]
    /\ s_pc' = [s_pc EXCEPT ![s] = "idle"]
    /\ UNCHANGED <<s_url, s_uploaded, s_error, transcribe_calls, summarize_calls>>
    /\ UNCHANGED <<cacheVars, mockVars, appVars>>

ConcInit ==
    /\ cache = <<>>
    /\ got = NONE
    /\ latest = [f \in IDS |-> NONE]
    /\ mockInit /\ concInit /\ appInit

ConcNext ==
    \/ \E s \in Sessions, u \in URLS \cup {""},
          up \in {NONE} \cup {Some(f) : f \in SHARED_FILES} : ConcLoad(s, u, up)
    \/ \E s \in Sessions : GenLookup(s)
    \/ \E s \in Sessions : GenTranscribe(s)
    \/ \E s \in Sessions : GenSummarize(s)
    \/ \E s \in Sessions : GenSave(s)

ConcSpec == ConcInit /\ [][ConcNext]_vars

-----------------------------------------------------------------------------
(* One session of app.py *)

AppTimes == 0..AppMaxTime

\* fake_current_time(): 0 without play_start, else int(time.time() - play_start)
fake_current_time(ps, t) == IF ps = NONE THEN 0 ELSE IntSec(t - The(ps))

\* One run of app.py: af and demo are the values of the uploader and of the
\* demo checkbox (demo.mp3 is taken to exist beside the script), btn the
\* button pressed, t the reading of time.time().
AppRun(af, demo, btn, t) ==
    LET source == IF demo THEN Some("demo.mp3") ELSE af
        ps == IF source = NONE THEN app_play_start
              ELSE IF btn = "play" THEN Some(t)
              ELSE IF btn = "stop" THEN NONE
              ELSE app_play_start
    IN
    /\ now' = t
    /\ audio_file' = af
    /\ demo_clip' = demo
    /\ app_play_start' = ps
    /\ app_marks' = IF source # NONE /\ btn = "mark"
                    THEN Append(app_marks, <<fake_current_time(ps, t), Len(app_marks) + 1>>)
                    ELSE app_marks
    /\ app_position' = IF source # NONE THEN Some(fake_current_time(ps, t)) ELSE NONE
    /\ app_summary_shown' = (btn = "generate")

\* the Play, Stop and Mark buttons are drawn inside `if audio_file:`
AppControlsDrawn == audio_file # NONE \/ demo_clip

appOthers == <<cache, cacheVars, mockVars, concVars>>

AppUpload(f, t) ==
    /\ audio_file # Some(f)
    /\ AppRun(Some(f), demo_clip, "none", t)
    /\ UNCHANGED appOthers

AppRemoveFile(t) ==
    /\ audio_file # NONE
    /\ AppRun(NONE, demo_clip, "none", t)
    /\ UNCHANGED appOthers

AppToggleDemo(t) ==
    /\ AppRun(audio_file, ~demo_clip, "none", t)
    /\ UNCHANGED appOthers

AppPlay(t) ==
    /\ AppControlsDrawn
    /\ AppRun(audio_file, demo_clip, "play", t)
    /\ UNCHANGED appOthers

AppStop(t) ==
    /\ AppControlsDrawn
    /\ AppRun(audio_file, demo_clip, "stop", t)
    /\ UNCHANGED appOthers

AppMark(t) ==
    /\ AppControlsDrawn
    /\ Len(app_marks) < MaxMarks
    /\ AppRun(audio_file, demo_clip, "mark", t)
    /\ UNCHANGED appOthers

\* the summary button is drawn by every run, with or without a source
AppGenerate(t) ==
    /\ AppRun(audio_file, demo_clip, "generate", t)
    /\ UNCHANGED appOthers

AppRerun(t) ==
    /\ AppRun(audio_file, demo_clip, "none", t)
    /\ UNCHANGED appOthers

AppInit ==
    /\ cache = <<>>
    /\ got = NONE
    /\ latest = [f \in IDS |-> NONE]
    /\ mockInit /\ concInit /\ appInit

AppNext ==
    \/ \E f \in FILES, t \in AppTimes : AppUpload(f, t)
    \/ \E t \in AppTimes : AppRemoveFile(t)
    \/ \E t \in AppTimes : AppToggleDemo(t)
    \/ \E t \in AppTimes : AppPlay(t)
    \/ \E t \in AppTimes : AppStop(t)
    \/ \E t \in AppTimes : AppMark(t)
    \/ \E t \in AppTimes : AppGenerate(t)
    \/ \E t \in AppTimes : AppRerun(t)

AppSpec == AppInit /\ [][AppNext]_vars

-----------------------------------------------------------------------------
(* The claims *)

\* C1: after any sequence of cache_save calls, cache_get(f) is the pair of
\* the most recent cache_save for f, and None when f was never saved; the
\* table holds at most one row per id.
C1_GetReturnsLatest ==
    \A f \in IDS :
        /\ cache_get(cache, f) = latest[f]
        /\ Cardinality(Rows(cache, f)) <= 1

\* an id saved twice with different pairs, another id never saved
C1_Witness ==
    /\ \E f \in IDS : latest[f] = Some(<<"t2", "t2">>) /\ got = Some(<<"t2", "t2">>)
    /\ \E f \in IDS : latest[f] = NONE
    /\ \E f \in IDS : latest[f] = Some(<<"t1", "t2">>)


\* C2 as stated: over all Generate actions of all sessions in any
\* interleaving, each stub runs at most once per fingerprint.
C2_OncePerFingerprint ==
    \A f \in IDS : transcribe_calls[f] <= 1 /\ summarize_calls[f] <= 1

\* a handler of some session is between its cache_get and its cache_save for f
InFlight(f) ==
    \E s \in Sessions :
        /\ s_pc[s] # "idle"
        /\ FileId(s_url[s], s_uploaded[s]) = Some(f)

\* a result for f is committed and no handler that missed it is still running
Settled(f) == Rows(cache, f) # {} /\ ~InFlight(f)

\* C2 amended: once a result for fingerprint f is committed to the cache and
\* no Generate handler that looked f up before the commit is still running,
\* that stays so and neither stub is invoked for f again, by any session.
C2_PaidOnceAfterCommit ==
    [][\A f \in IDS :
          Settled(f) =>
             /\ Settled(f)'
             /\ transcribe_calls'[f] = transcribe_calls[f]
             /\ summarize_calls'[f] = summarize_calls[f]]_vars

\* every session has asked for the same upload; the stubs ran once
C2_Witness ==
    \E f \in SHARED_FILES :
        /\ Settled(file_md5(f))
        /\ \A s \in Sessions : s_uploaded[s] = Some(f) /\ s_summary[s] = Some(SummaryStub)
        /\ transcribe_calls[file_md5(f)] = 1
        /\ summarize_calls[file_md5(f)] = 1

\* C3 as stated: Stop freezes the position at its value at the time of
\* stopping, and every later query returns that value until Play is pressed.
C3_StopFreezesPosition ==
    [][/\ (app_play_start # NONE /\ app_play_start' = NONE /\ app_position' # NONE)
            => app_position' = Some(IntSec(now' - The(app_play_start)))
       /\ (app_play_start = NONE /\ app_play_start' = NONE
              /\ app_position # NONE /\ app_position' # NONE)
            => app_position' = app_position]_vars

\* C4 as stated: in a run in which the player component reports played
\* seconds, the current position is that value.
C4_PlayerValuePreferred ==
    event # NONE => current_time = The(event)

\* C5 as stated: a run that adds a mark appends one mark with the current
\* position and an empty note, and leaves every earlier mark as it was.
C5_MarkAppendsOnly ==
    [][Len(marks') = Len(marks) + 1 =>
          /\ \A i \in 1..Len(marks) : marks'[i] = marks[i]
          /\ marks'[Len(marks')] = [ts |-> current_time', note |-> ""]]_vars

\* C6: a run that adds no mark, a note edit in particular, changes the note
\* of at most one mark (the edited one) and no timestamp or place in the
\* list, also among marks with the same timestamp.
C6_EditChangesOneNote ==
    [][Len(marks') = Len(marks) =>
          /\ \A i \in 1..Len(marks) : marks'[i].ts = marks[i].ts
          /\ Cardinality({i \in 1..Len(marks) : marks'[i].note # marks[i].note}) <= 1]_vars

\* two marks with the same timestamp, the later one edited since
C6_Witness ==
    /\ halt = "rendered"
    /\ \E i, j \in 1..Len(marks) :
          /\ i > j
          /\ marks[i].ts = marks[j].ts
          /\ marks[i].note = "x"
          /\ marks[j].note = ""

\* C7: Generate pressed with the URL flag set and no cache entry for the
\* fingerprint in use ends with the not-implemented error: no stub runs, the
\* cache is not written, summary and transcript keep their values.
C7_UrlMissIsError ==
    [][(/\ pressed' = "generate"
        /\ url' # ""
        /\ FileId(url', uploaded') # NONE
        /\ cache_get(cache, The(FileId(url', uploaded'))) = NONE)
       => /\ halt' = "url_not_implemented"
          /\ invoked' = {}
          /\ cache' = cache
          /\ summary' = summary
          /\ transcript' = transcript]_vars

\* the error after an earlier upload had been summarized
C7_Witness ==
    /\ pressed = "generate"
    /\ halt = "url_not_implemented"
    /\ uploaded = NONE
    /\ summary = Some(SummaryStub)
    /\ cache_get(cache, file_md5(url)) = NONE

\* C8 as stated: a run with no source adds no mark and shows no summary.
C8_NoSourceBlocks ==
    [][(audio_file' = NONE /\ ~demo_clip') =>
          /\ app_marks' = app_marks
          /\ ~app_summary_shown']_vars

\* C9 as stated: the position, stored or copied into a mark, is never negative.
C9_PositionNonNegative ==
    /\ current_time >= 0
    /\ \A i \in 1..Len(marks) : marks[i].ts >= 0

\* C10 as stated: with a file uploaded, Generate ends with the summary and
\* transcript of that file's fingerprint, whatever the URL field holds.
C10_UploadAlwaysSummarized ==
    (pressed = "generate" /\ uploaded # NONE) =>
        /\ halt = "rendered"
        /\ summary # NONE /\ transcript # NONE
        /\ cache_get(cache, file_md5(The(uploaded))) = Some(<<The(transcript), The(summary)>>)

====
